---- MODULE Spec2Model ----
(***************************************************************************)
(* Model of dify-patcher/installer/patcher.py: main, create_backup,        *)
(* apply_patches, apply_patch and is_patch_applied, together with the git  *)
(* commands they run on the target tree.                                   *)
(*                                                                         *)
(* The target tree is a working tree of a few regions (hunks of tracked    *)
(* files), each holding a small value; HEAD holds 0 in every region.  A    *)
(* patch rewrites one region from one value to another, so a forward       *)
(* check succeeds when the region holds the patch's `from` value and a     *)
(* reverse check when it holds its `to` value.  File names and messages    *)
(* are sequences of symbols ordered as Python orders characters, so that   *)
(* sorted() and the substring tests of the code are computed, not assumed. *)
(***************************************************************************)
EXTENDS Integers, Sequences, FiniteSets, TLC

\* ---------------------------------------------------------------- bounds
MaxPatches == 3      \* most patch files in the patches directory
MaxRuns == 2         \* invocations of main in sequence on the same tree
MaxFaults == 1       \* git commands that fail for reasons outside the tree,
                     \* over all invocations

\* ------------------------------------------------- symbols of the strings
\* The phrases the code searches for or emits, as single symbols.  A file
\* name is a sequence of symbols; the characters used in names keep their
\* ASCII order ('-' < '.' < '1' < '2' < 'A').
AlreadyApplied == 65
ReadyToApply == 101
Conflicts == 102
ErrorChecking == 103
WouldBeApplied == 104
AppliedSuccessfully == 105
FailedToApply == 106
Colon == 58
GitStderr == 107
ErrText == 108

Regions == {1, 2}
\* The contents a region may hold: 0 is the content at HEAD.
Values == {0, 1, 2}
Trees == [Regions -> Values]
HEAD == [r \in Regions |-> 0]

\* The patch files that may lie in the patches directory.  45 is '-', 46
\* is the '.' of ".patch", 49 and 50 are '1' and '2'; the fourth name
\* contains the phrase "Already applied".
Catalogue ==
    { [name |-> <<49, 45, 50, 46>>, region |-> 1, from |-> 0, to |-> 1],
      [name |-> <<49, 46>>, region |-> 1, from |-> 0, to |-> 2],
      [name |-> <<50, 46>>, region |-> 2, from |-> 0, to |-> 1],
      [name |-> <<50, AlreadyApplied, 46>>, region |-> 1, from |-> 1, to |-> 2] }

Directories == { d \in SUBSET Catalogue : Cardinality(d) <= MaxPatches }

VARIABLES
    \* the world
    dir,             \* the *.patch files of the patches directory
    tree,            \* content of the working tree
    stash,           \* git's stash: sequence of saved tree contents
    is_repo,         \* the target directory is a git repository
    target_exists, has_api, has_web, git_available, patches_exists,
    \* the command line
    force, no_backup, dry_run,
    \* the run
    pc, patch_files, idx, result, success,
    success_count, skip_count, fail_count,
    batch, exit_code, output,
    \* history
    run, faults, gitlog, outcomes, tree0, stash0, prev

world == <<dir, tree, stash, is_repo, target_exists, has_api, has_web,
           git_available, patches_exists>>
args == <<force, no_backup, dry_run>>
counts == <<success_count, skip_count, fail_count>>
loopv == <<patch_files, idx, result, success>>
hist == <<run, faults, gitlog, outcomes, tree0, stash0, prev>>
vars == <<world, args, pc, loopv, counts, batch, exit_code, output, hist>>

\* ------------------------------------------------------------- strings
RECURSIVE LexLess(_, _)
LexLess(a, b) ==
    IF a = <<>> THEN b # <<>>
    ELSE IF b = <<>> THEN FALSE
    ELSE IF a[1] # b[1] THEN a[1] < b[1]
    ELSE LexLess(Tail(a), Tail(b))

Contains(msg, sym) == \E i \in 1..Len(msg) : msg[i] = sym

\* ------------------------------------------------------------- sorted()
PathLess(p, q) == LexLess(p.name, q.name)

RECURSIVE InsertSorted(_, _)
InsertSorted(p, s) ==
    IF s = <<>> THEN <<p>>
    ELSE IF PathLess(p, s[1]) THEN <<p>> \o s
    ELSE <<s[1]>> \o InsertSorted(p, Tail(s))

sorted_Unsorted(s) == s

RECURSIVE sorted(_)
sorted(s) ==
    IF s = <<>> THEN <<>>
    ELSE InsertSorted(s[1], sorted(Tail(s)))

\* The orders in which glob may enumerate a set of files: all of them.
Enumerations(S) ==
    { s \in [1..Cardinality(S) -> S] : \A p \in S : \E i \in DOMAIN s : s[i] = p }

\* ------------------------------------------------------------------ git
GitCheckReverse(t, p) == t[p.region] = p.to
GitCheckForward(t, p) == t[p.region] = p.from
GitApply(t, p) == [t EXCEPT ![p.region] = p.to]
GitStatusPorcelain(t) == t # HEAD

\* ----------------------------------------------------- is_patch_applied
\* (a variant that consults the forward check alone)
is_patch_applied_ForwardOnly(t, p, fault, etext) ==
    IF fault # "none"
    THEN [is_applied |-> FALSE, msg |-> <<ErrorChecking>> \o etext,
          probe |-> "Error", calls |-> <<"forward_check">>]
    ELSE IF GitCheckForward(t, p)
    THEN [is_applied |-> FALSE, msg |-> <<ReadyToApply>>,
          probe |-> "Applicable", calls |-> <<"forward_check">>]
    ELSE [is_applied |-> FALSE, msg |-> <<Conflicts, GitStderr>>,
          probe |-> "Conflicting", calls |-> <<"forward_check">>]

\* fault: "none", or the subprocess call that raises ("reverse", "forward");
\* etext: the text of the raised exception.  calls: the git commands run.
is_patch_applied(t, p, fault, etext) ==
    IF fault = "reverse"
    THEN [is_applied |-> FALSE, msg |-> <<ErrorChecking>> \o etext,
          probe |-> "Error", calls |-> <<"reverse_check">>]
    ELSE IF GitCheckReverse(t, p)
    THEN [is_applied |-> TRUE, msg |-> <<AlreadyApplied>>,
          probe |-> "Applied", calls |-> <<"reverse_check">>]
    ELSE IF fault = "forward"
    THEN [is_applied |-> FALSE, msg |-> <<ErrorChecking>> \o etext,
          probe |-> "Error", calls |-> <<"reverse_check", "forward_check">>]
    ELSE IF GitCheckForward(t, p)
    THEN [is_applied |-> FALSE, msg |-> <<ReadyToApply>>,
          probe |-> "Applicable", calls |-> <<"reverse_check", "forward_check">>]
    ELSE [is_applied |-> FALSE, msg |-> <<Conflicts, GitStderr>>,
          probe |-> "Conflicting", calls |-> <<"reverse_check", "forward_check">>]

\* ----------------------------------------------------------- apply_patch
\* apply_fails: git apply exits non-zero although the patch fits the tree.
\* git apply writes all of a patch or nothing, so a failed application
\* leaves the tree as it was.  The subprocess call of line 98 is modelled by
\* its exit status (CalledProcessError when non-zero).
apply_patch(t, p, dry, fault, etext, apply_fails) ==
    LET patch_name == p.name
        chk == is_patch_applied(t, p, fault, etext)
        base == [name |-> patch_name, probe |-> chk.probe, tree |-> t,
                 calls |-> chk.calls, real |-> FALSE]
    IN  IF chk.is_applied
        THEN base @@
             [success |-> TRUE, message |-> patch_name \o <<Colon>> \o chk.msg]
        ELSE IF Contains(chk.msg, Conflicts)
        THEN base @@
             [success |-> FALSE, message |-> patch_name \o <<Colon>> \o chk.msg]
        ELSE IF dry
        THEN base @@
             [success |-> TRUE, message |-> patch_name \o <<Colon, WouldBeApplied>>]
        ELSE IF GitCheckForward(t, p) /\ ~apply_fails
        THEN [base EXCEPT !.tree = GitApply(t, p), !.real = TRUE,
                          !.calls = chk.calls \o <<"apply">>] @@
             [success |-> TRUE, message |-> patch_name \o <<Colon, AppliedSuccessfully>>]
        ELSE [base EXCEPT !.real = TRUE, !.calls = chk.calls \o <<"apply">>] @@
             [success |-> FALSE,
              message |-> patch_name \o <<Colon, FailedToApply, GitStderr>>]

NoResult == [name |-> <<>>, probe |-> "None", tree |-> HEAD, calls |-> <<>>,
             real |-> FALSE, success |-> FALSE, message |-> <<>>]

Line(s) == [line |-> s, n |-> <<>>]
Log(cmds, name) == [i \in 1..Len(cmds) |-> [cmd |-> cmds[i], name |-> name]]

\* --------------------------------------------- the decisions of the code
\* Lines 250-262: the first validation that fails, "" when none does.
ValidationError_NoGitCheck(te, ha, hw, ga) ==
    IF ~te THEN "Target directory not found"
    ELSE IF ~ha \/ ~hw THEN "Invalid Dify directory"
    ELSE ""

ValidationError(te, ha, hw, ga) ==
    IF ~te THEN "Target directory not found"
    ELSE IF ~ha \/ ~hw THEN "Invalid Dify directory"
    ELSE IF ~ga THEN "Git is not available"
    ELSE ""

\* Line 265: whether main calls create_backup.
BackupWanted_IgnoreDryRun(nb, dr) == ~nb
BackupWanted_IgnoreNoBackup(nb, dr) == ~dr
BackupWanted(nb, dr) == ~nb /\ ~dr

\* Line 133: the value apply_patches returns for a directory without patches.
EmptyDirResult_False == FALSE
EmptyDirResult == TRUE

\* Line 146: whether a successful result counts as a skip.
IsSkip(message) == Contains(message, AlreadyApplied)

\* Line 156: whether a failed patch ends the loop.
HaltOnFailure_Never(f) == FALSE
HaltOnFailure_Always(f) == TRUE
HaltOnFailure(f) == ~f

\* Lines 148-154: the increment of the counter of the patch's class.
Increment_Lost(n) == n
Increment(n) == n + 1

\* Line 164: the summary line with the three counts.
SummaryLine_Swapped(applied, skipped, failed) ==
    [line |-> "Summary", n |-> <<skipped, applied, failed>>]
SummaryLine(applied, skipped, failed) ==
    [line |-> "Summary", n |-> <<applied, skipped, failed>>]

\* Line 167: the value apply_patches returns after the loop.
AllSucceeded_Always(fc) == TRUE
AllSucceeded(fc) == fc = 0

\* Lines 276-286: the exit code main returns.
ExitCode(ok) == IF ok THEN 0 ELSE 1

\* ------------------------------------------------------------------ Init
Init ==
    /\ dir \in Directories
    /\ tree \in Trees
    /\ stash = <<>>
    /\ is_repo \in BOOLEAN
    /\ target_exists \in BOOLEAN
    /\ has_api \in BOOLEAN
    /\ has_web \in BOOLEAN
    /\ git_available \in BOOLEAN
    /\ patches_exists \in BOOLEAN
    \* a directory that does not exist has no content
    /\ ~target_exists => (~has_api /\ ~has_web /\ ~is_repo /\ tree = HEAD)
    /\ ~patches_exists => dir = {}
    /\ force \in BOOLEAN
    /\ no_backup \in BOOLEAN
    /\ dry_run = FALSE
    /\ pc = "idle"
    /\ patch_files = <<>>
    /\ idx = 0
    /\ result = NoResult
    /\ success = FALSE
    /\ success_count = 0 /\ skip_count = 0 /\ fail_count = 0
    /\ batch = "Idle"
    /\ exit_code = 0
    /\ output = <<>>
    /\ run = 0 /\ faults = 0
    /\ gitlog = <<>> /\ outcomes = <<>>
    /\ tree0 = tree /\ stash0 = stash
    /\ prev = [dry_run |-> FALSE, exit_code |-> 0, applied |-> {}]

\* ------------------------------------------------------------------ main
\* parser.parse_args: an invocation of main; --dry-run is chosen per
\* invocation, --force and --no-backup are the same in every invocation.
ParseArgs ==
    /\ pc \in {"idle", "exit"}
    /\ run < MaxRuns
    /\ run' = run + 1
    /\ dry_run' \in BOOLEAN
    /\ prev' = [dry_run |-> dry_run, exit_code |-> exit_code,
                applied |-> { outcomes[i].name : i \in { j \in DOMAIN outcomes :
                                outcomes[j].marker = "ok" /\ outcomes[j].real } }]
    /\ pc' = "validate"
    /\ patch_files' = <<>> /\ idx' = 0 /\ result' = NoResult /\ success' = FALSE
    /\ success_count' = 0 /\ skip_count' = 0 /\ fail_count' = 0
    /\ batch' = "Idle" /\ exit_code' = 0 /\ output' = <<>>
    /\ gitlog' = <<>> /\ outcomes' = <<>>
    /\ tree0' = tree /\ stash0' = stash
    /\ UNCHANGED <<world, force, no_backup, faults>>

\* Validation of the target directory and of git.
Validate ==
    /\ pc = "validate"
    /\ LET err == ValidationError(target_exists, has_api, has_web, git_available)
       IN  IF err # ""
           THEN /\ output' = Append(output, Line(err))
                /\ exit_code' = 1
                /\ pc' = "exit"
           ELSE /\ pc' = "backup"
                /\ UNCHANGED <<output, exit_code>>
    /\ UNCHANGED <<world, args, loopv, counts, batch, hist>>

\* ---------------------------------------------------------- create_backup
\* fault: "none", or the git command that fails ("status", "stash").
create_backup_FailedStashResets(t, st, fault) ==
    IF ~is_repo \/ fault = "status"
    THEN [tree |-> t, stash |-> st, calls |-> <<"status">>,
          out |-> <<Line("Could not create backup")>>]
    ELSE IF GitStatusPorcelain(t)
    THEN IF fault = "stash"
         THEN [tree |-> HEAD, stash |-> st, calls |-> <<"status", "stash">>,
               out |-> <<Line("Creating backup"), Line("Could not create backup")>>]
         ELSE [tree |-> HEAD, stash |-> Append(st, t), calls |-> <<"status", "stash">>,
               out |-> <<Line("Creating backup"), Line("Backup created")>>]
    ELSE [tree |-> t, stash |-> st, calls |-> <<"status">>, out |-> <<>>]

create_backup(t, st, fault) ==
    IF ~is_repo \/ fault = "status"
    THEN [tree |-> t, stash |-> st, calls |-> <<"status">>,
          out |-> <<Line("Could not create backup")>>]
    ELSE IF GitStatusPorcelain(t)
    THEN IF fault = "stash"
         THEN [tree |-> t, stash |-> st, calls |-> <<"status", "stash">>,
               out |-> <<Line("Creating backup"), Line("Could not create backup")>>]
         ELSE [tree |-> HEAD, stash |-> Append(st, t), calls |-> <<"status", "stash">>,
               out |-> <<Line("Creating backup"), Line("Backup created")>>]
    ELSE [tree |-> t, stash |-> st, calls |-> <<"status">>, out |-> <<>>]

BackupFaults ==
    {"none"} \cup
    (IF faults < MaxFaults /\ is_repo
     THEN {"status"} \cup (IF GitStatusPorcelain(tree) THEN {"stash"} ELSE {})
     ELSE {})

MainBackup ==
    /\ pc = "backup"
    /\ BackupWanted(no_backup, dry_run)
    /\ \E fault \in BackupFaults :
         LET b == create_backup(tree, stash, fault)
         IN  /\ tree' = b.tree
             /\ stash' = b.stash
             /\ gitlog' = gitlog \o Log(b.calls, <<>>)
             /\ output' = output \o b.out
             /\ faults' = IF fault = "none" THEN faults ELSE faults + 1
    /\ pc' = "apply_patches"
    /\ UNCHANGED <<dir, is_repo, target_exists, has_api, has_web, git_available,
                   patches_exists, args, loopv, counts, batch, exit_code,
                   run, outcomes, tree0, stash0, prev>>

MainNoBackup ==
    /\ pc = "backup"
    /\ ~BackupWanted(no_backup, dry_run)
    /\ pc' = "apply_patches"
    /\ UNCHANGED <<world, args, loopv, counts, batch, exit_code, output, hist>>

\* ---------------------------------------------------------- apply_patches
\* Lines 124-140: the directory test, glob, sorted and the empty test.
ApplyPatchesBegin ==
    /\ pc = "apply_patches"
    /\ IF ~patches_exists
       THEN /\ output' = Append(output, Line("Patches directory not found"))
            /\ success' = FALSE
            /\ pc' = "report"
            /\ UNCHANGED <<patch_files, idx, batch>>
       ELSE \E l \in Enumerations(dir) :
            /\ patch_files' = sorted(l)
            /\ IF l = <<>>
               THEN /\ output' = Append(output, Line("No patch files found"))
                    /\ success' = EmptyDirResult
                    /\ batch' = "Completed"
                    /\ pc' = "report"
                    /\ idx' = idx
               ELSE /\ output' = Append(output, Line("Found patch files"))
                    /\ batch' = "Running"
                    /\ idx' = 1
                    /\ pc' = "loop"
                    /\ success' = success
    /\ UNCHANGED <<world, args, result, counts, exit_code,
                   run, faults, gitlog, outcomes, tree0, stash0, prev>>

ProbeFaults(p) ==
    {"none"} \cup
    (IF faults < MaxFaults
     THEN {"reverse"} \cup (IF GitCheckReverse(tree, p) THEN {} ELSE {"forward"})
     ELSE {})

\* Line 143: the call of apply_patch for the next patch file.
LoopCall ==
    /\ pc = "loop"
    /\ idx <= Len(patch_files)
    /\ LET p == patch_files[idx]
       IN  \E fault \in ProbeFaults(p), etext \in {<<ErrText>>, <<ErrText, Conflicts>>},
              apply_fails \in BOOLEAN :
             /\ fault # "reverse" => etext = <<ErrText>>
             /\ apply_fails => (fault = "none" /\ faults < MaxFaults /\ ~dry_run
                                /\ ~GitCheckReverse(tree, p) /\ GitCheckForward(tree, p))
             /\ LET r == apply_patch(tree, p, dry_run, fault, etext, apply_fails)
                IN  /\ result' = r
                    /\ tree' = r.tree
                    /\ gitlog' = gitlog \o Log(r.calls, p.name)
             /\ faults' = IF fault = "none" /\ ~apply_fails THEN faults ELSE faults + 1
    /\ pc' = "classify"
    /\ UNCHANGED <<dir, stash, is_repo, target_exists, has_api, has_web, git_available,
                   patches_exists, args, patch_files, idx, success, counts, batch,
                   exit_code, output, run, outcomes, tree0, stash0, prev>>

Outcome(r, marker) ==
    [name |-> r.name, probe |-> r.probe, marker |-> marker, real |-> r.real]

\* Lines 145-160: the classification of the result and the halt decision.
Classify ==
    /\ pc = "classify"
    /\ IF result.success
       THEN /\ IF IsSkip(result.message)
               THEN /\ output' = Append(output, Line("skip"))
                    /\ outcomes' = Append(outcomes, Outcome(result, "skip"))
                    /\ skip_count' = Increment(skip_count)
                    /\ UNCHANGED success_count
               ELSE /\ output' = Append(output, Line("ok"))
                    /\ outcomes' = Append(outcomes, Outcome(result, "ok"))
                    /\ success_count' = Increment(success_count)
                    /\ UNCHANGED skip_count
            /\ idx' = idx + 1
            /\ pc' = "loop"
            /\ UNCHANGED <<fail_count, success, batch>>
       ELSE /\ outcomes' = Append(outcomes, Outcome(result, "fail"))
            /\ fail_count' = Increment(fail_count)
            /\ UNCHANGED <<success_count, skip_count>>
            /\ IF HaltOnFailure(force)
               THEN /\ output' = output \o <<Line("fail"), Line("Stopping due to patch failure")>>
                    /\ success' = FALSE
                    /\ batch' = "Halted"
                    /\ pc' = "report"
                    /\ idx' = idx
               ELSE /\ output' = Append(output, Line("fail"))
                    /\ idx' = idx + 1
                    /\ pc' = "loop"
                    /\ UNCHANGED <<success, batch>>
    /\ UNCHANGED <<world, args, patch_files, result, exit_code,
                   run, faults, gitlog, tree0, stash0, prev>>

\* Lines 162-167: the summary and the return value.
Summary ==
    /\ pc = "loop"
    /\ idx > Len(patch_files)
    /\ output' = Append(output, SummaryLine(success_count, skip_count, fail_count))
    /\ success' = AllSucceeded(fail_count)
    /\ batch' = "Completed"
    /\ pc' = "report"
    /\ UNCHANGED <<world, args, patch_files, idx, result, counts, exit_code, hist>>

\* Lines 276-286: the final message and the exit code.
Report ==
    /\ pc = "report"
    /\ IF success
       THEN /\ output' = Append(output, Line(IF dry_run
                                             THEN "All patches can be applied successfully!"
                                             ELSE "All patches applied successfully!"))
       ELSE /\ output' = Append(output, Line("Some patches failed to apply"))
    /\ exit_code' = ExitCode(success)
    /\ pc' = "exit"
    /\ UNCHANGED <<world, args, loopv, counts, batch, hist>>

Next ==
    \/ ParseArgs
    \/ Validate
    \/ MainBackup
    \/ MainNoBackup
    \/ ApplyPatchesBegin
    \/ LoopCall
    \/ Classify
    \/ Summary
    \/ Report

Spec == Init /\ [][Next]_vars

\* ================================================================ claims
\* What the history of a run shows.
Markers == [i \in DOMAIN outcomes |-> outcomes[i].marker]
TouchedNames == { gitlog[i].name : i \in DOMAIN gitlog } \ {<<>>}
FilesUpTo(k) == { patch_files[i].name : i \in 1..k }
ProbeCount(n) ==
    Cardinality({ i \in DOMAIN gitlog :
                    gitlog[i].cmd = "reverse_check" /\ gitlog[i].name = n })
Ended == pc \in {"report", "exit"}

\* C1 - Halt-on-failure: without force, once a patch has been classified
\* Failed the batch is halted: the failed patch is the last one with an
\* outcome, no later patch has been probed or applied, apply_patches returns
\* False and main exits with 1; for [A applicable, B conflicting, C] the
\* outcomes are exactly [Applied A, Failed B].
C1_HaltOnFailure ==
    /\ (~force /\ \E i \in DOMAIN outcomes : outcomes[i].marker = "fail") =>
         /\ outcomes[Len(outcomes)].marker = "fail"
         /\ \A i \in 1..(Len(outcomes) - 1) : outcomes[i].marker # "fail"
         /\ fail_count = 1
         /\ batch = "Halted"
         /\ Ended
         /\ ~success
         /\ TouchedNames \subseteq FilesUpTo(Len(outcomes))
         /\ pc = "exit" => exit_code = 1
    /\ (/\ ~force /\ pc = "exit" /\ Len(patch_files) = 3 /\ Len(outcomes) >= 2
        /\ outcomes[1].probe = "Applicable" /\ outcomes[1].marker = "ok"
        /\ outcomes[2].probe = "Conflicting") =>
         /\ Markers = <<"ok", "fail">>
         /\ patch_files[3].name \notin TouchedNames
         /\ exit_code = 1

C1_Witness ==
    /\ pc = "exit" /\ ~force /\ ~dry_run
    /\ Len(patch_files) = 3
    /\ Markers = <<"ok", "fail">>
    /\ outcomes[1].real
    /\ outcomes[2].probe = "Conflicting"
    /\ exit_code = 1

\* C2 - Force-through: with force the batch is never halted; a run that
\* entered the loop ends Completed with one outcome per discovered patch, in
\* order, each patch probed exactly once, and the exit code is 1 when a
\* patch failed.
C2_ForceThrough ==
    force =>
      /\ batch # "Halted"
      /\ (Ended /\ patch_files # <<>>) =>
           /\ batch = "Completed"
           /\ Len(outcomes) = Len(patch_files)
           /\ \A i \in DOMAIN patch_files :
                /\ outcomes[i].name = patch_files[i].name
                /\ ProbeCount(patch_files[i].name) = 1
      /\ (pc = "exit" /\ fail_count > 0) => exit_code = 1

C2_Witness ==
    /\ pc = "exit" /\ force /\ ~dry_run
    /\ Markers = <<"ok", "fail", "ok">>
    /\ outcomes[1].real
    /\ outcomes[2].probe = "Conflicting"
    /\ outcomes[3].real /\ outcomes[3].probe = "Applicable"
    /\ exit_code = 1

Valid == ValidationError(target_exists, has_api, has_web, git_available) = ""
Mutations == { i \in DOMAIN gitlog : gitlog[i].cmd \in {"apply", "stash"} }

\* C3 - Idempotence: in a non-dry-run invocation that follows a non-dry-run
\* invocation with the same flags, the tree's content is never changed, and
\* at its end every patch the previous invocation applied has the outcome
\* Skipped with probe Applied.  Stated for the runs in which every git
\* command behaves as the tree dictates (faults = 0).
C3_Idempotence ==
    (run >= 2 /\ ~prev.dry_run /\ ~dry_run /\ faults = 0) =>
      /\ tree = tree0
      /\ pc = "exit" =>
           \A n \in prev.applied :
             \E i \in DOMAIN outcomes :
               /\ outcomes[i].name = n
               /\ outcomes[i].probe = "Applied"
               /\ outcomes[i].marker = "skip"

\* C4 - Dry-run purity: in an invocation with --dry-run the tree's content
\* and the stash stay what they were at its start, and neither a stash nor a
\* forward application is executed.
C4_DryRunPurity ==
    dry_run => (tree = tree0 /\ stash = stash0 /\ Mutations = {})

C4_Witness ==
    /\ dry_run /\ pc = "exit" /\ ~no_backup /\ is_repo
    /\ GitStatusPorcelain(tree0)
    /\ \E i \in DOMAIN outcomes :
         outcomes[i].probe = "Applicable" /\ outcomes[i].marker = "ok"
    /\ \E i \in DOMAIN outcomes : outcomes[i].probe = "Conflicting"

\* C5 - Exit code: main returns 0 exactly when every validation passed, the
\* patches directory exists and the batch reached Completed with no failed
\* patch; in every other case it returns 1.
C5_ExitCode ==
    pc = "exit" =>
      /\ exit_code \in {0, 1}
      /\ exit_code = 0 <=>
           (/\ target_exists /\ has_api /\ has_web /\ git_available
            /\ patches_exists
            /\ batch = "Completed"
            /\ fail_count = 0)

C5_Witness ==
    /\ pc = "exit" /\ exit_code = 1
    /\ force /\ batch = "Completed"
    /\ fail_count > 0 /\ success_count > 0

\* C6 - Probe precedence: when the reverse check of a patch succeeds, the
\* probe returns Applied after that one check, without a forward check, and
\* the patch gets a successful result; no patch probed Applied has a Failed
\* outcome.
C6_ProbePrecedence ==
    /\ [][(/\ pc = "loop" /\ pc' = "classify" /\ faults' = faults
           /\ GitCheckReverse(tree, patch_files[idx])) =>
          (/\ result'.probe = "Applied"
           /\ result'.calls = <<"reverse_check">>
           /\ result'.success
           /\ tree' = tree)]_vars
    /\ [](\A i \in DOMAIN outcomes :
            outcomes[i].probe = "Applied" => outcomes[i].marker # "fail")

C6_Witness ==
    /\ pc = "classify"
    /\ result.probe = "Applied" /\ result.success
    /\ ~GitCheckForward(tree, patch_files[idx])
    /\ GitCheckReverse(tree, patch_files[idx])

\* C7 - Precondition failures abort with nothing done: a run in which the
\* target directory, its api or web subdirectory, git or the patches
\* directory is missing ends with exit code 1, without a probe or an
\* application, and with the working tree and the stash as they were.
C7_PreconditionAbort ==
    (pc = "exit" /\ ~(Valid /\ patches_exists)) =>
      /\ exit_code = 1
      /\ outcomes = <<>>
      /\ TouchedNames = {}
      /\ batch = "Idle"
      /\ tree = tree0
      /\ stash = stash0

\* C8 - Deterministic sequential order: the patch files are processed in
\* ascending order of their file names whatever order the directory was
\* enumerated in; a patch is probed only when all patches before it have
\* their outcome, and at most once in a run.
C8_SequentialOrder ==
    /\ \A i, j \in DOMAIN patch_files :
         i < j => LexLess(patch_files[i].name, patch_files[j].name)
    /\ batch # "Idle" => { patch_files[i] : i \in DOMAIN patch_files } = dir
    /\ Len(outcomes) <= Len(patch_files)
    /\ \A i \in DOMAIN outcomes : outcomes[i].name = patch_files[i].name
    /\ TouchedNames \subseteq
         FilesUpTo(IF pc = "classify" THEN Len(outcomes) + 1 ELSE Len(outcomes))
    /\ \A n \in TouchedNames : ProbeCount(n) = 1
    /\ \A i, j \in DOMAIN gitlog :
         (i < j /\ gitlog[i].name # <<>>) =>
            ~LexLess(gitlog[j].name, gitlog[i].name)

C8_Witness ==
    /\ pc = "exit"
    /\ Len(patch_files) = 3 /\ Len(outcomes) = 3
    /\ patch_files[1].name = <<49, 45, 50, 46>>
    /\ patch_files[2].name = <<49, 46>>
    /\ \A i \in 1..3 : ProbeCount(patch_files[i].name) = 1

\* C9 - Vacuous success: with an existing patches directory that holds no
\* patch file, apply_patches records no outcome, runs no probe and no
\* application, prints the warning and returns True, and main exits with 0.
C9_VacuousSuccess ==
    (Valid /\ patches_exists /\ dir = {} /\ Ended) =>
      /\ outcomes = <<>>
      /\ TouchedNames = {}
      /\ success_count = 0 /\ skip_count = 0 /\ fail_count = 0
      /\ \E i \in DOMAIN output : output[i] = Line("No patch files found")
      /\ success
      /\ batch = "Completed"
      /\ pc = "exit" => exit_code = 0

C9_Witness ==
    /\ pc = "exit" /\ Valid /\ patches_exists /\ dir = {}
    /\ ~dry_run /\ ~no_backup /\ is_repo /\ GitStatusPorcelain(tree0)
    /\ exit_code = 0

C11_OnlyApplicatorMutates ==
    [][tree' # tree =>
         (/\ pc = "loop" /\ pc' = "classify"
          /\ result'.real /\ result'.success
          /\ tree' = GitApply(tree, patch_files[idx]))]_vars

\* C12 - Snapshot timing: in a run the dirty query and the snapshot command
\* are each executed at most once, and before every probe and application; a
\* snapshot exists only in a run without --dry-run and --no-backup whose tree
\* was dirty, and it holds the tree as it was at the start of the run.
StatusCalls == { i \in DOMAIN gitlog : gitlog[i].cmd = "status" }
StashCalls == { i \in DOMAIN gitlog : gitlog[i].cmd = "stash" }
PatchCalls == { i \in DOMAIN gitlog : gitlog[i].name # <<>> }

C12_SnapshotTiming ==
    /\ Cardinality(StatusCalls) <= 1
    /\ Cardinality(StashCalls) <= 1
    /\ \A i \in StatusCalls \cup StashCalls : \A j \in PatchCalls : i < j
    /\ StashCalls # {} =>
         (~dry_run /\ ~no_backup /\ is_repo /\ GitStatusPorcelain(tree0))
    /\ StatusCalls # {} => (~dry_run /\ ~no_backup)
    /\ stash # stash0 =>
         /\ StashCalls # {}
         /\ stash = Append(stash0, tree0)

C12_Witness ==
    /\ pc = "exit"
    /\ stash = Append(stash0, tree0)
    /\ StashCalls # {}
    /\ \E i \in DOMAIN outcomes : outcomes[i].real /\ outcomes[i].marker = "ok"
    /\ \E i \in DOMAIN outcomes : outcomes[i].probe = "Applied"

\* C13 - Applicator precondition: git apply is executed for a patch only when
\* its probe returned Applicable, a success outcome is recorded only for such
\* a patch (or one found Applied), and a probe that raised an error leads
\* neither to a forward application nor to a success outcome.
C13_ApplicatorPrecondition ==
    \A i \in DOMAIN outcomes :
        /\ outcomes[i].real => outcomes[i].probe = "Applicable"
        /\ outcomes[i].marker = "ok" => outcomes[i].probe = "Applicable"
        /\ outcomes[i].probe = "Error" =>
             (~outcomes[i].real /\ outcomes[i].marker = "fail")

\* C14 - Outcome classification, stated for the runs in which every git
\* command behaves: whatever the file name, a processed patch is counted as
\* a skip exactly when its probe returned Applied, as applied exactly when
\* its probe returned Applicable and the application or the dry-run short-cut
\* succeeded, and as failed exactly when its probe returned Conflicting or
\* its real application failed; a skipped patch never halts the batch.
SkipExpected == { i \in DOMAIN outcomes : outcomes[i].probe = "Applied" }
AppliedExpected ==
    { i \in DOMAIN outcomes :
        outcomes[i].probe = "Applicable" /\ outcomes[i].marker # "fail" }
FailExpected ==
    { i \in DOMAIN outcomes :
        \/ outcomes[i].probe = "Conflicting"
        \/ outcomes[i].real /\ outcomes[i].marker = "fail" }

C14_OutcomeClassification ==
    faults = 0 =>
        /\ skip_count = Cardinality(SkipExpected)
        /\ success_count = Cardinality(AppliedExpected)
        /\ fail_count = Cardinality(FailExpected)
        /\ \A i \in DOMAIN outcomes :
             /\ outcomes[i].marker = "skip" <=> i \in SkipExpected
             /\ outcomes[i].marker = "ok" <=> i \in AppliedExpected
             /\ outcomes[i].marker = "fail" <=> i \in FailExpected
        /\ batch = "Halted" => outcomes[Len(outcomes)].probe # "Applied"

\* C15 - Backup failure is non-fatal: when the dirty query or the snapshot
\* command fails, create_backup prints a warning and the run goes on to the
\* batch with the tree and the stash as they were at the start of the run;
\* when no git command of the batch fails, the patches get the outcomes, in
\* the order, that the batch gives on that tree without any backup, and the
\* exit code is 0 exactly when none of them failed.
BackupFailed == \E i \in DOMAIN output : output[i] = Line("Could not create backup")
NoPatchFault ==
    \A i \in DOMAIN outcomes :
        /\ outcomes[i].probe # "Error"
        /\ outcomes[i].real /\ outcomes[i].marker = "fail" =>
             outcomes[i].probe = "Conflicting"

RECURSIVE Replay(_, _)
Replay(t, k) ==
    IF k > Len(patch_files) THEN <<>>
    ELSE LET r == apply_patch(t, patch_files[k], dry_run, "none", <<ErrText>>, FALSE)
             m == IF ~r.success THEN "fail"
                  ELSE IF IsSkip(r.message) THEN "skip" ELSE "ok"
         IN  IF m = "fail" /\ HaltOnFailure(force)
             THEN <<m>>
             ELSE <<m>> \o Replay(r.tree, k + 1)

C15_BackupFailureNonFatal ==
    /\ (StatusCalls # {} /\ ~is_repo) => BackupFailed
    /\ BackupFailed =>
         /\ Valid /\ ~dry_run /\ ~no_backup
         /\ stash = stash0
         /\ pc \notin {"validate", "backup"}
         /\ pc = "apply_patches" => tree = tree0
         /\ (pc = "exit" /\ patches_exists /\ NoPatchFault) =>
              /\ Markers = Replay(tree0, 1)
              /\ \A i \in DOMAIN outcomes : outcomes[i].name = patch_files[i].name
              /\ exit_code = ExitCode(\A i \in DOMAIN outcomes :
                                          outcomes[i].marker # "fail")

C15_Witness ==
    /\ BackupFailed
    /\ GitStatusPorcelain(tree0)
    /\ pc = "exit"
    /\ NoPatchFault
    /\ exit_code = 0
    /\ Len(outcomes) >= 2
    /\ \E i \in DOMAIN outcomes : outcomes[i].real /\ outcomes[i].marker = "ok"

\* C16 (as stated) - Summary at the end of every run: every run whose batch
\* processed at least one patch and ended, in Completed or in Halted, has
\* printed the summary line with the three counts after the marker of the
\* last processed patch.
SummaryLines == { i \in DOMAIN output : output[i].line = "Summary" }
MarkerLines == { i \in DOMAIN output : output[i].line \in {"skip", "ok", "fail"} }

C16_SummaryEveryRun ==
    (Ended /\ batch \in {"Completed", "Halted"} /\ outcomes # <<>>) =>
        \E i \in SummaryLines :
            /\ output[i].n = <<success_count, skip_count, fail_count>>
            /\ \A j \in MarkerLines : j < i

\* C16 (amended) - A run whose loop has processed every patch file of a
\* non-empty list prints the summary line once, with the three counts, after
\* the marker of the last patch; a halted run prints the stop message after
\* the marker of the failed patch and no summary line, and a run over an
\* empty or missing patches directory prints no summary line either.
C16_SummaryAfterLoop ==
    Ended =>
        /\ (batch = "Completed" /\ patch_files # <<>>) =>
             /\ Cardinality(SummaryLines) = 1
             /\ \A i \in SummaryLines :
                  /\ output[i].n = <<success_count, skip_count, fail_count>>
                  /\ \A j \in MarkerLines : j < i
             /\ Cardinality(MarkerLines) = Len(patch_files)
        /\ batch = "Halted" =>
             /\ SummaryLines = {}
             /\ \E i \in DOMAIN output :
                  /\ output[i] = Line("Stopping due to patch failure")
                  /\ i - 1 \in MarkerLines /\ output[i - 1].line = "fail"
                  /\ \A j \in MarkerLines : j < i
        /\ (batch = "Idle" \/ patch_files = <<>>) => SummaryLines = {}

C16_Witness ==
    /\ pc = "exit"
    /\ batch = "Completed"
    /\ SummaryLines # {}
    /\ success_count = 1 /\ skip_count = 1 /\ fail_count = 1

\* C18 - Count conservation: at every moment the three counts add up to the
\* number of patches with an outcome and each count is the number of outcomes
\* of its class; in Completed the sum is the number of patch files found; in
\* Halted force is false, exactly one patch failed, and the sum is the
\* position of the failed patch in the order.
CountOf(m) == Cardinality({ i \in DOMAIN outcomes : outcomes[i].marker = m })

C18_CountConservation ==
    /\ success_count + skip_count + fail_count = Len(outcomes)
    /\ success_count = CountOf("ok")
    /\ skip_count = CountOf("skip")
    /\ fail_count = CountOf("fail")
    /\ Len(outcomes) <= Len(patch_files)
    /\ pc = "loop" => Len(outcomes) = idx - 1
    /\ batch = "Completed" =>
         success_count + skip_count + fail_count = Len(patch_files)
    /\ batch = "Halted" =>
         /\ ~force
         /\ fail_count = 1
         /\ success_count + skip_count + fail_count = idx
         /\ outcomes[idx].marker = "fail"
         /\ outcomes[idx].name = patch_files[idx].name

C18_Witness ==
    /\ batch = "Halted"
    /\ idx = 3
    /\ success_count = 1 /\ skip_count = 1 /\ fail_count = 1

\* C17 - Dry-run predicts the real run, stated for the runs with --no-backup
\* in which every git command behaves: when an invocation with --dry-run
\* ended with exit code 0 and the next invocation, without --dry-run, starts
\* on the same tree with the same patches and the same other flags, that
\* invocation ends with exit code 0 too.
C17_DryRunPredicts ==
    (/\ faults = 0
     /\ no_backup
     /\ run >= 2
     /\ prev.dry_run /\ prev.exit_code = 0
     /\ ~dry_run
     /\ pc = "exit") => exit_code = 0

====
